---- MODULE Spec2Model ----
(***************************************************************************)
(* FlipKit client workflow: the HomePage component (capture, analyze,      *)
(* negotiate, reset, retry) and the OffersContent component (fetchOffers). *)
(* Every React state field is a variable; every event handler and every    *)
(* resumption of an async handler after an await is one action.            *)
(*                                                                         *)
(* Nullable values: null is the empty tuple, a value v is <<v>>.           *)
(* Text (response bodies, error messages, hrefs) is a tuple of pieces and  *)
(* template-string concatenation is \o.                                    *)
(***************************************************************************)
EXTENDS Bags, FiniteSets, Integers, Sequences, TLC

VARIABLES
    page,            \* which route is mounted: "home" or "offers"
    state,           \* HomePage: UploadState
    preview,         \* HomePage: object URL of the captured image, or null
    currentFile,     \* HomePage: the captured File, or null
    analysisResult,  \* HomePage: AnalysisResult, or null
    errorMessage,    \* HomePage: error text, or null
    coords,          \* HomePage: geolocation result, or null
    jobId,           \* HomePage: job handle, or null
    analyzeCoords,   \* coords as captured by the memoized handleAnalyze closure
    geo,             \* geolocation probe: "pending", "resolved" or "failed"
    inputValue,      \* value of the <input type=file> elements
    objectUrls,      \* object URLs created and not yet revoked
    calls,           \* bag of suspended async handler invocations
    jobIdParam,      \* OffersContent: searchParams.get('job_id')
    pageState,       \* OffersContent: PageState
    data,            \* OffersContent: OffersData, or null
    offersError,     \* OffersContent: errorMessage
    effectPending,   \* OffersContent: the mount effect has not run yet
    lastEvent        \* history: the handler step taken last, with its input

homeVars == <<state, preview, currentFile, analysisResult, errorMessage, coords,
              jobId, analyzeCoords, geo, inputValue>>

offersVars == <<jobIdParam, pageState, data, offersError, effectPending>>

vars == <<page, homeVars, objectUrls, calls, offersVars, lastEvent>>

(* ---------------------------------------------------------------------- *)
(* Bounds and input domains                                                *)
(* ---------------------------------------------------------------------- *)

\* At most this many async handler invocations are suspended at once.
MaxCalls == 2

\* At most this many object URLs are live (created and not revoked) at once.
MaxUrls == 2

Null == <<>>

Some(v) == <<v>>

\* Files the user can pick, with their MIME types (File.type).
Files == {"photo.jpg", "notes.txt"}

FileType(f) == IF f = "photo.jpg" THEN <<"image/", "jpeg">> ELSE <<"text/", "plain">>

\* Positions the geolocation API can report.
Positions == {[lat |-> 40, lng |-> -74]}

\* Tokens the identity provider can return from getToken().
Tokens == {Null, Some("tok")}

\* JSON payloads /api/analyze can answer with.
AnalysisPayloads ==
    {[analysis_id |-> "a1", best_platform |-> "eBay", low |-> 200, high |-> 280],
     [analysis_id |-> "", best_platform |-> "Etsy", low |-> 5, high |-> 9]}

\* Job ids /api/negotiate can answer with.
JobIds == {"j1", "j2"}

\* Body texts of non-2xx responses.
Bodies == {<<"model unavailable">>, <<>>}

\* An OfferResult: the fields the partition and its display depend on.
Offer(id, acc, price) == [id |-> id, accepted |-> acc, agreed_price |-> price]

\* Snapshots /api/offers can answer with: status and the offers so far.
Snapshots ==
    {[status |-> "pending", offers |-> <<>>],
     [status |-> "pending", offers |-> <<Offer("o1", TRUE, Some(300))>>],
     [status |-> "done", offers |-> <<Offer("o1", TRUE, Some(300)), Offer("o2", FALSE, Null),
                                      Offer("o3", TRUE, Some(450))>>],
     [status |-> "done", offers |-> <<Offer("o1", FALSE, Null), Offer("o2", FALSE, Null)>>],
     [status |-> "done", offers |-> <<Offer("o1", TRUE, Some(300)), Offer("o2", TRUE, Some(320)),
                                      Offer("o3", TRUE, Some(450))>>]}

\* What fetch() settles with: it rejects (transport failure), or resolves with a
\* response of some status whose body is text or parses as JSON.
HttpFailures == {[rejected |-> FALSE, status |-> 500, text |-> b, json |-> Null] : b \in Bodies}

Rejections == {[rejected |-> TRUE, status |-> 0, text |-> <<>>, json |-> Null]}

Successes(payloads) == {[rejected |-> FALSE, status |-> 200, text |-> <<>>, json |-> Some(p)] : p \in payloads}

\* A 200 response whose body is not JSON: response.json() throws.
Malformed == {[rejected |-> FALSE, status |-> 200, text |-> <<>>, json |-> Null]}

Responses(payloads) == Successes(payloads) \cup Malformed \cup HttpFailures \cup Rejections

\* Response.ok: the status is in the range 200-299.
ResponseOk(resp) == resp.status \div 100 = 2

(* ---------------------------------------------------------------------- *)
(* Helpers                                                                 *)
(* ---------------------------------------------------------------------- *)

\* String.prototype.startsWith on a text of pieces.
StartsWith(text, prefix) == Len(text) >= Len(prefix) /\ SubSeq(text, 1, Len(prefix)) = prefix

\* A suspended invocation of an async handler.  pc is the await it is suspended
\* at: "token" (await getToken()) or "fetch" (await fetch(...)).  stale records
\* that reset ran while the request was in flight or, for an offers request,
\* that a snapshot with status done was applied while it was in flight.
NewCall(kind, file, ll, id) ==
    [kind |-> kind, pc |-> "token", stale |-> FALSE, file |-> file, ll |-> ll, id |-> id]

AddCall(b, c) == b (+) SetToBag({c})

RemoveCall(b, c) == b (-) SetToBag({c})

Stale(c) == IF c.pc = "fetch" THEN [c EXCEPT !.stale = TRUE] ELSE c

MarkStale(b) ==
    [s \in {Stale(c) : c \in BagToSet(b)} |->
        BagCardinality([c \in {d \in BagToSet(b) : Stale(d) = s} |-> CopiesIn(c, b)])]

\* The number of requests of the given kinds sent and not yet settled.
InFlight(kinds) ==
    BagCardinality([c \in {d \in BagToSet(calls) : d.kind \in kinds /\ d.pc = "fetch"}
                      |-> CopiesIn(c, calls)])

\* Faulty variant: the catch block stores its fallback text for every failure.
ThrownBy_generic(resp, prefix) == <<"Something went wrong">>

\* The message the catch block stores: err.message, as every value thrown in the
\* try block is an Error.
ThrownBy(resp, prefix) ==
    IF resp.rejected THEN <<"Failed to fetch">>
    ELSE IF ~ResponseOk(resp) THEN prefix \o resp.text
    ELSE <<"Unexpected end of JSON input">>

\* Template literal `@${coords.lat},${coords.lng}`.
LlParam(c) == <<"@", c.lat, ",", c.lng>>

\* Template literal `/offers?job_id=${jobId}`: a null jobId prints as "null".
OffersHref(id) == <<"/offers?job_id=", IF id = Null THEN "null" ELSE id[1]>>

\* searchParams.get('job_id') on that href.
SearchParamJobId(href) == Some(href[2])

\* JavaScript truthiness of a nullable string.
Truthy(s) == s # Null /\ s # Some("")

(* ---------------------------------------------------------------------- *)
(* Mounting                                                                *)
(* ---------------------------------------------------------------------- *)

\* HomePage's useState initial values; the geolocation effect has been issued.
HomeMounted ==
    /\ state = "idle"
    /\ preview = Null
    /\ currentFile = Null
    /\ analysisResult = Null
    /\ errorMessage = Null
    /\ coords = Null
    /\ jobId = Null
    /\ analyzeCoords = Null
    /\ geo = "pending"
    /\ inputValue = ""

\* OffersContent's useState initial values; with mounted = FALSE the component
\* does not exist and its fields rest at these values.
OffersMounted(param, mounted) ==
    /\ jobIdParam = param
    /\ pageState = "loading"
    /\ data = Null
    /\ offersError = Null
    /\ effectPending = mounted

\* The app is opened at /home, or at /offers with or without a job_id.
Init ==
    /\ objectUrls = {}
    /\ calls = EmptyBag
    /\ HomeMounted
    /\ \/ /\ page = "home"
          /\ OffersMounted(Null, FALSE)
          /\ lastEvent = [op |-> "mount", page |-> "home"]
       \/ /\ page = "offers"
          /\ \E param \in {Null} \cup {Some(j) : j \in JobIds} : OffersMounted(param, TRUE)
          /\ lastEvent = [op |-> "mount", page |-> "offers"]

(* ---------------------------------------------------------------------- *)
(* HomePage                                                                *)
(* ---------------------------------------------------------------------- *)

\* URL.createObjectURL returns a URL that names no other live object URL; the
\* model numbers the URLs and takes the least number naming no live URL.
createObjectURL ==
    CHOOSE n \in 1..(Cardinality(objectUrls) + 1) :
        n \notin objectUrls /\ \A m \in 1..(n - 1) : m \in objectUrls

\* Faulty variant: handleFile without the MIME type test.
handleFile_noTypeCheck(file) ==
    /\ Cardinality(objectUrls) < MaxUrls
    /\ objectUrls' = objectUrls \cup {createObjectURL}
    /\ preview' = Some(createObjectURL)
    /\ currentFile' = Some(file)
    /\ state' = "preview"
    /\ analyzeCoords' = coords

\* handleFile: non-image files return early; an image gets an object URL.
handleFile(file) ==
    IF ~StartsWith(FileType(file), <<"image/">>)
    THEN UNCHANGED <<state, preview, currentFile, analyzeCoords, objectUrls>>
    ELSE /\ Cardinality(objectUrls) < MaxUrls
         /\ objectUrls' = objectUrls \cup {createObjectURL}
         /\ preview' = Some(createObjectURL)
         /\ currentFile' = Some(file)
         /\ state' = "preview"
         \* currentFile changed, so useCallback re-creates handleAnalyze, which
         \* captures the coords of this render
         /\ analyzeCoords' = coords

\* Faulty variant: the input keeps its selection after the change event.
onFileChange_keepsValue(input, file) ==
    /\ page = "home" /\ state = "idle"
    /\ inputValue # file
    /\ handleFile(file)
    /\ inputValue' = file
    /\ lastEvent' = [op |-> "onFileChange", input |-> input, file |-> file]
    /\ UNCHANGED <<page, analysisResult, errorMessage, coords, jobId, geo, calls, offersVars>>

\* The change event of the file picker or the camera input (rendered in idle).
onFileChange(input, file) ==
    /\ page = "home" /\ state = "idle"
    /\ inputValue # file
    /\ handleFile(file)
    /\ inputValue' = ""
    /\ lastEvent' = [op |-> "onFileChange", input |-> input, file |-> file]
    /\ UNCHANGED <<page, analysisResult, errorMessage, coords, jobId, geo, calls, offersVars>>

\* A file dropped on the drop zone (rendered in idle).
onDrop(file) ==
    /\ page = "home" /\ state = "idle"
    /\ handleFile(file)
    /\ lastEvent' = [op |-> "onDrop", input |-> "drop", file |-> file]
    /\ UNCHANGED <<page, analysisResult, errorMessage, coords, jobId, geo, inputValue,
                   calls, offersVars>>

\* The state updates of reset.
resetState ==
    /\ objectUrls' = IF preview # Null THEN objectUrls \ {preview[1]} ELSE objectUrls
    /\ preview' = Null
    /\ currentFile' = Null
    /\ analysisResult' = Null
    /\ errorMessage' = Null
    /\ state' = "idle"
    /\ UNCHANGED jobId

\* Faulty variant: reset also forgets the coordinates.
reset_clearsCoords ==
    /\ page = "home"
    /\ \/ state \in {"preview", "calling", "error"}
       \/ state = "results" /\ analysisResult # Null
    /\ resetState
    /\ coords' = Null
    /\ analyzeCoords' = IF currentFile # Null THEN Null ELSE analyzeCoords
    /\ calls' = MarkStale(calls)
    /\ lastEvent' = [op |-> "reset", from |-> state]
    /\ UNCHANGED <<page, geo, inputValue, offersVars>>

\* Faulty variant: the error stage has no "Start over".
reset_notFromError ==
    /\ page = "home"
    /\ \/ state \in {"preview", "calling"}
       \/ state = "results" /\ analysisResult # Null
    /\ resetState
    /\ analyzeCoords' = IF currentFile # Null THEN coords ELSE analyzeCoords
    /\ calls' = MarkStale(calls)
    /\ lastEvent' = [op |-> "reset", from |-> state]
    /\ UNCHANGED <<page, coords, geo, inputValue, offersVars>>

\* reset, bound to buttons of the preview, results, calling and error stages.
\* currentFile is a dependency of the memoized handleAnalyze, so when reset
\* changes it the closure is re-created with the coords of this render.
reset ==
    /\ page = "home"
    /\ \/ state \in {"preview", "calling", "error"}
       \/ state = "results" /\ analysisResult # Null
    /\ resetState
    /\ analyzeCoords' = IF currentFile # Null THEN coords ELSE analyzeCoords
    /\ calls' = MarkStale(calls)
    /\ lastEvent' = [op |-> "reset", from |-> state]
    /\ UNCHANGED <<page, coords, geo, inputValue, offersVars>>

\* Faulty variant: handleAnalyze leaves the earlier error message in place.
handleAnalyze_keepsError ==
    /\ page = "home" /\ state = "preview"
    /\ IF currentFile = Null
       THEN UNCHANGED <<state, errorMessage, calls>>
       ELSE /\ BagCardinality(calls) < MaxCalls
            /\ state' = "analyzing"
            /\ UNCHANGED errorMessage
            /\ calls' = AddCall(calls, NewCall("analyze", currentFile,
                            IF analyzeCoords # Null THEN Some(LlParam(analyzeCoords[1]))
                            ELSE Null, ""))
    /\ lastEvent' = [op |-> "handleAnalyze", sent |-> currentFile # Null,
                     hadError |-> errorMessage # Null]
    /\ UNCHANGED <<page, preview, currentFile, analysisResult, coords, jobId, analyzeCoords,
                   geo, inputValue, objectUrls, offersVars>>

\* handleAnalyze up to its first await (the Analyze button of the preview stage).
handleAnalyze ==
    /\ page = "home" /\ state = "preview"
    /\ IF currentFile = Null
       THEN UNCHANGED <<state, errorMessage, calls>>
       ELSE /\ BagCardinality(calls) < MaxCalls
            /\ state' = "analyzing"
            /\ errorMessage' = Null
            /\ calls' = AddCall(calls, NewCall("analyze", currentFile,
                            IF analyzeCoords # Null THEN Some(LlParam(analyzeCoords[1]))
                            ELSE Null, ""))
    /\ lastEvent' = [op |-> "handleAnalyze", sent |-> currentFile # Null,
                     hadError |-> errorMessage # Null]
    /\ UNCHANGED <<page, preview, currentFile, analysisResult, coords, jobId, analyzeCoords,
                   geo, inputValue, objectUrls, offersVars>>

\* Faulty variant: the stored AnalysisResult loses its best_platform.
analyzeSettled_dropsField(resp) ==
    IF ~resp.rejected /\ ResponseOk(resp) /\ resp.json # Null
    THEN /\ analysisResult' = Some([resp.json[1] EXCEPT !.best_platform = ""])
         /\ state' = "results"
         /\ UNCHANGED errorMessage
    ELSE /\ errorMessage' = Some(ThrownBy(resp, <<"Analysis failed: ">>))
         /\ state' = "error"
         /\ UNCHANGED analysisResult

\* Faulty variant: the thrown Error carries the bare body text.
analyzeSettled_noPrefix(resp) ==
    IF ~resp.rejected /\ ResponseOk(resp) /\ resp.json # Null
    THEN /\ analysisResult' = resp.json
         /\ state' = "results"
         /\ UNCHANGED errorMessage
    ELSE /\ errorMessage' = Some(ThrownBy(resp, <<>>))
         /\ state' = "error"
         /\ UNCHANGED analysisResult

\* The state updates of handleAnalyze once fetch has settled with resp.
analyzeSettled(resp) ==
    IF ~resp.rejected /\ ResponseOk(resp) /\ resp.json # Null
    THEN /\ analysisResult' = resp.json
         /\ state' = "results"
         /\ UNCHANGED errorMessage
    ELSE /\ errorMessage' = Some(ThrownBy(resp, <<"Analysis failed: ">>))
         /\ state' = "error"
         /\ UNCHANGED analysisResult

\* Faulty variant: a failed analysis is sent again by the handler itself.
handleAnalyzeResume_retries(c, resp) ==
    /\ page = "home"
    /\ c.kind = "analyze" /\ c.pc = "fetch"
    /\ analyzeSettled(resp)
    /\ calls' = IF ~resp.rejected /\ ResponseOk(resp) /\ resp.json # Null
                THEN RemoveCall(calls, c)
                ELSE AddCall(RemoveCall(calls, c), [c EXCEPT !.pc = "token"])
    /\ lastEvent' = [op |-> "handleAnalyze.settled", stale |-> c.stale, resp |-> resp]
    /\ UNCHANGED <<page, preview, currentFile, coords, jobId, analyzeCoords, geo, inputValue,
                   objectUrls, offersVars>>

\* handleAnalyze from the settlement of fetch to its end.
handleAnalyzeResume(c, resp) ==
    /\ page = "home"
    /\ c.kind = "analyze" /\ c.pc = "fetch"
    /\ analyzeSettled(resp)
    /\ calls' = RemoveCall(calls, c)
    /\ lastEvent' = [op |-> "handleAnalyze.settled", stale |-> c.stale, resp |-> resp]
    /\ UNCHANGED <<page, preview, currentFile, coords, jobId, analyzeCoords, geo, inputValue,
                   objectUrls, offersVars>>

\* Faulty variant: handleNegotiate without its analysis_id guard.
handleNegotiate_noGuard ==
    /\ page = "home" /\ state = "results" /\ analysisResult # Null
    /\ BagCardinality(calls) < MaxCalls
    /\ calls' = AddCall(calls, NewCall("negotiate", Null, Null,
                                       analysisResult[1].analysis_id))
    /\ lastEvent' = [op |-> "handleNegotiate", sent |-> TRUE]
    /\ UNCHANGED <<page, homeVars, objectUrls, offersVars>>

\* handleNegotiate up to its first await ("Yes, call them" of the results stage).
handleNegotiate ==
    /\ page = "home" /\ state = "results" /\ analysisResult # Null
    /\ IF analysisResult[1].analysis_id = ""
       THEN UNCHANGED calls
       ELSE /\ BagCardinality(calls) < MaxCalls
            /\ calls' = AddCall(calls, NewCall("negotiate", Null, Null,
                                               analysisResult[1].analysis_id))
    /\ lastEvent' = [op |-> "handleNegotiate", sent |-> analysisResult[1].analysis_id # ""]
    /\ UNCHANGED <<page, homeVars, objectUrls, offersVars>>

\* Faulty variant: the calling stage is entered without storing the job id.
negotiateSettled_dropsJob(resp) ==
    IF ~resp.rejected /\ ResponseOk(resp) /\ resp.json # Null
    THEN /\ state' = "calling"
         /\ UNCHANGED <<jobId, errorMessage>>
    ELSE /\ errorMessage' = Some(ThrownBy(resp, <<>>))
         /\ state' = "error"
         /\ UNCHANGED jobId

\* The state updates of handleNegotiate once fetch has settled with resp.
negotiateSettled(resp) ==
    IF ~resp.rejected /\ ResponseOk(resp) /\ resp.json # Null
    THEN /\ jobId' = Some(resp.json[1].job_id)
         /\ state' = "calling"
         /\ UNCHANGED errorMessage
    ELSE /\ errorMessage' = Some(ThrownBy(resp, <<>>))
         /\ state' = "error"
         /\ UNCHANGED jobId

\* handleNegotiate from the settlement of fetch to its end.
handleNegotiateResume(c, resp) ==
    /\ page = "home"
    /\ c.kind = "negotiate" /\ c.pc = "fetch"
    /\ negotiateSettled(resp)
    /\ calls' = RemoveCall(calls, c)
    /\ lastEvent' = [op |-> "handleNegotiate.settled", stale |-> c.stale, resp |-> resp]
    /\ UNCHANGED <<page, preview, currentFile, analysisResult, coords, analyzeCoords, geo,
                   inputValue, objectUrls, offersVars>>

\* "Try again" of the error stage.
retry ==
    /\ page = "home" /\ state = "error"
    /\ state' = "preview"
    /\ lastEvent' = [op |-> "retry"]
    /\ UNCHANGED <<page, preview, currentFile, analysisResult, errorMessage, coords, jobId,
                   analyzeCoords, geo, inputValue, objectUrls, calls, offersVars>>

\* The success callback of getCurrentPosition.
geoSuccess(pos) ==
    /\ page = "home" /\ geo = "pending"
    /\ coords' = Some(pos)
    /\ geo' = "resolved"
    /\ lastEvent' = [op |-> "geoSuccess"]
    /\ UNCHANGED <<page, state, preview, currentFile, analysisResult, errorMessage, jobId,
                   analyzeCoords, inputValue, objectUrls, calls, offersVars>>

\* Faulty variant: a failed probe is reported as a workflow error.
geoError_showsError ==
    /\ page = "home" /\ geo = "pending"
    /\ geo' = "failed"
    /\ state' = "error"
    /\ errorMessage' = Some(<<"Location unavailable">>)
    /\ lastEvent' = [op |-> "geoError"]
    /\ UNCHANGED <<page, preview, currentFile, analysisResult, coords,
                   jobId, analyzeCoords, inputValue, objectUrls, calls, offersVars>>

\* The probe fails or is denied: no error callback was passed.
geoError ==
    /\ page = "home" /\ geo = "pending"
    /\ geo' = "failed"
    /\ lastEvent' = [op |-> "geoError"]
    /\ UNCHANGED <<page, state, preview, currentFile, analysisResult, errorMessage, coords,
                   jobId, analyzeCoords, inputValue, objectUrls, calls, offersVars>>

\* Faulty variant: the header is built whether or not there is a token.
getTokenResolved_alwaysHeader(c, token) ==
    /\ c.pc = "token"
    /\ calls' = AddCall(RemoveCall(calls, c), [c EXCEPT !.pc = "fetch"])
    /\ lastEvent' = [op |-> "fetch", kind |-> c.kind, token |-> token,
                     authorization |-> Some(<<"Bearer ", IF token # Null THEN token[1]
                                                         ELSE "null">>),
                     file |-> c.file, ll |-> c.ll, id |-> c.id]
    /\ UNCHANGED <<page, homeVars, objectUrls, offersVars>>

\* await getToken() resolves and the handler issues its fetch.
getTokenResolved(c, token) ==
    /\ c.pc = "token"
    /\ calls' = AddCall(RemoveCall(calls, c), [c EXCEPT !.pc = "fetch"])
    /\ lastEvent' = [op |-> "fetch", kind |-> c.kind, token |-> token,
                     authorization |-> IF token # Null THEN Some(<<"Bearer ", token[1]>>)
                                       ELSE Null,
                     file |-> c.file, ll |-> c.ll, id |-> c.id]
    /\ UNCHANGED <<page, homeVars, objectUrls, offersVars>>

(* ---------------------------------------------------------------------- *)
(* Navigation                                                              *)
(* ---------------------------------------------------------------------- *)

\* HomePage is unmounted: its state is dropped, and the continuations of its
\* suspended handlers no longer update any state.
HomeUnmounted ==
    /\ state' = "idle"
    /\ preview' = Null
    /\ currentFile' = Null
    /\ analysisResult' = Null
    /\ errorMessage' = Null
    /\ coords' = Null
    /\ jobId' = Null
    /\ analyzeCoords' = Null
    /\ geo' = "pending"
    /\ inputValue' = ""
    /\ calls' = EmptyBag

\* OffersContent is mounted with the job_id of the URL, or unmounted.
OffersRemounted(param, mounted) ==
    /\ jobIdParam' = param
    /\ pageState' = "loading"
    /\ data' = Null
    /\ offersError' = Null
    /\ effectPending' = mounted

\* "Check my offers", the Link of the calling stage.
checkMyOffers ==
    /\ page = "home" /\ state = "calling"
    /\ page' = "offers"
    /\ OffersRemounted(SearchParamJobId(OffersHref(jobId)), TRUE)
    /\ HomeUnmounted
    /\ lastEvent' = [op |-> "navigate", href |-> OffersHref(jobId)]
    /\ UNCHANGED <<objectUrls>>

\* "Back to FlipKit", the Link of the offers page: a new HomePage is mounted.
backToFlipKit ==
    /\ page = "offers"
    /\ page' = "home"
    /\ OffersRemounted(Null, FALSE)
    /\ HomeUnmounted
    /\ lastEvent' = [op |-> "mount", page |-> "home"]
    /\ UNCHANGED <<objectUrls>>

(* ---------------------------------------------------------------------- *)
(* OffersContent                                                           *)
(* ---------------------------------------------------------------------- *)

\* Faulty variant: fetchOffers without its job id guard.
fetchOffersStart_noGuard ==
    /\ BagCardinality(calls) < MaxCalls
    /\ calls' = AddCall(calls, NewCall("offers", Null, Null,
                                       IF jobIdParam = Null THEN "null" ELSE jobIdParam[1]))
    /\ UNCHANGED <<offersError, pageState>>

\* fetchOffers up to its first await.
fetchOffersStart ==
    IF ~Truthy(jobIdParam)
    THEN /\ offersError' = Some(<<"No job ID provided.">>)
         /\ pageState' = "error"
         /\ UNCHANGED calls
    ELSE /\ BagCardinality(calls) < MaxCalls
         /\ calls' = AddCall(calls, NewCall("offers", Null, Null, jobIdParam[1]))
         /\ UNCHANGED <<offersError, pageState>>

\* The mount effect: useEffect(() => { fetchOffers(); }, [fetchOffers]).
fetchOffersEffect ==
    /\ page = "offers" /\ effectPending
    /\ fetchOffersStart
    /\ effectPending' = FALSE
    /\ lastEvent' = [op |-> "fetchOffers", by |-> "effect", sent |-> Truthy(jobIdParam)]
    /\ UNCHANGED <<page, homeVars, objectUrls, jobIdParam, data>>

\* "Refresh", rendered while the page is ready and the status is not done.
refresh ==
    /\ page = "offers" /\ ~effectPending
    /\ pageState = "ready" /\ (data = Null \/ data[1].status # "done")
    /\ fetchOffersStart
    /\ lastEvent' = [op |-> "fetchOffers", by |-> "refresh", sent |-> Truthy(jobIdParam)]
    /\ UNCHANGED <<page, homeVars, objectUrls, jobIdParam, data, effectPending>>

\* Faulty variant: a snapshot is merged into the offers already held.
offersSettled_accumulates(resp) ==
    IF ~resp.rejected /\ ResponseOk(resp) /\ resp.json # Null
    THEN /\ data' = IF data = Null THEN resp.json
                    ELSE Some([resp.json[1] EXCEPT !.offers = data[1].offers \o @])
         /\ pageState' = "ready"
         /\ UNCHANGED offersError
    ELSE /\ offersError' = Some(ThrownBy(resp, <<>>))
         /\ pageState' = "error"
         /\ UNCHANGED data

\* The state updates of fetchOffers once fetch has settled with resp.
offersSettled(resp) ==
    IF ~resp.rejected /\ ResponseOk(resp) /\ resp.json # Null
    THEN /\ data' = resp.json
         /\ pageState' = "ready"
         /\ UNCHANGED offersError
    ELSE /\ offersError' = Some(ThrownBy(resp, <<>>))
         /\ pageState' = "error"
         /\ UNCHANGED data

\* fetchOffers from the settlement of fetch to its end.
fetchOffersResume(c, resp) ==
    /\ page = "offers"
    /\ c.kind = "offers" /\ c.pc = "fetch"
    /\ offersSettled(resp)
    /\ calls' = IF ~resp.rejected /\ ResponseOk(resp) /\ resp.json # Null
                   /\ resp.json[1].status = "done"
                THEN MarkStale(RemoveCall(calls, c))
                ELSE RemoveCall(calls, c)
    /\ lastEvent' = [op |-> "fetchOffers.settled", stale |-> c.stale, resp |-> resp,
                     before |-> [pageState |-> pageState, data |-> data]]
    /\ UNCHANGED <<page, homeVars, objectUrls, jobIdParam, effectPending>>

\* Array.prototype.slice(0, n): the first n elements, or all if there are fewer.
slice(s, n) == SubSeq(s, 1, IF Len(s) < n THEN Len(s) ELSE n)

\* data?.offers ?? []
offersOf(d) == IF d = Null THEN <<>> ELSE d[1].offers

\* The accepted and declined lists the offers page renders.
accepted == slice(SelectSeq(offersOf(data), LAMBDA o : o.accepted), 2)

declined == slice(SelectSeq(offersOf(data), LAMBDA o : ~o.accepted), 1)

\* data?.status
statusOf(d) == IF d = Null THEN "undefined" ELSE d[1].status

\* The panel the offers page renders below its header.
panel_ignoresStatus ==
    CASE pageState = "loading" -> "loading"
      [] pageState = "error" -> "error"
      [] pageState = "ready" -> "done"

panel ==
    CASE pageState = "loading" -> "loading"
      [] pageState = "error" -> "error"
      [] pageState = "ready" /\ statusOf(data) # "done" -> "inProgress"
      [] pageState = "ready" /\ statusOf(data) = "done" -> "done"

\* The steps by which outstanding invocations make progress.
tokenResolves == \E c \in BagToSet(calls), token \in Tokens : getTokenResolved(c, token)

analyzeSettles ==
    \E c \in BagToSet(calls), resp \in Responses(AnalysisPayloads) : handleAnalyzeResume(c, resp)

negotiateSettles ==
    \E c \in BagToSet(calls), resp \in Responses({[job_id |-> j] : j \in JobIds}) :
        handleNegotiateResume(c, resp)

offersSettles ==
    \E c \in BagToSet(calls), resp \in Responses(Snapshots) : fetchOffersResume(c, resp)

Next ==
    \/ \E input \in {"file", "camera"}, file \in Files : onFileChange(input, file)
    \/ \E file \in Files : onDrop(file)
    \/ reset
    \/ handleAnalyze
    \/ analyzeSettles
    \/ handleNegotiate
    \/ negotiateSettles
    \/ retry
    \/ \E pos \in Positions : geoSuccess(pos)
    \/ geoError
    \/ tokenResolves
    \/ checkMyOffers
    \/ backToFlipKit
    \/ fetchOffersEffect
    \/ refresh
    \/ offersSettles

Spec == Init /\ [][Next]_vars

\* Every getToken() promise resolves and every request sent is answered or
\* fails at transport level; nothing is assumed of what the user does.
FairSpec ==
    /\ Spec
    /\ WF_vars(tokenResolves)
    /\ WF_vars(analyzeSettles)
    /\ WF_vars(negotiateSettles)
    /\ WF_vars(offersSettles)

(* ---------------------------------------------------------------------- *)
(* Claims                                                                  *)
(* ---------------------------------------------------------------------- *)

\* fetch resolved with a 2xx response whose body parsed as JSON.
Succeeded(resp) == ~resp.rejected /\ ResponseOk(resp) /\ resp.json # Null

\* fetch resolved with a non-2xx response.
HttpFailed(resp) == ~resp.rejected /\ ~ResponseOk(resp)

\* text b occurs in text m as a contiguous run of pieces.
Contains(m, b) ==
    \/ b = <<>>
    \/ \E i \in 1..(Len(m) - Len(b) + 1) : SubSeq(m, i, i + Len(b) - 1) = b

HomeSettled == {"handleAnalyze.settled", "handleNegotiate.settled"}

FileEvents == {"onFileChange", "onDrop"}

\* C1: right after reset, from whatever stage, the workflow is in the state a
\* fresh workflow is in: stage idle and no image, no preview handle, no analysis
\* result, no job handle, no error message.
C1_ResetIsTotal ==
    lastEvent.op = "reset" =>
        /\ state = "idle"
        /\ currentFile = Null
        /\ preview = Null
        /\ analysisResult = Null
        /\ jobId = Null
        /\ errorMessage = Null

\* C2: the settlement of an analyze or negotiate request that was outstanding
\* when the user reset changes neither the stage nor the stored analysis
\* result, job handle or error message.
C2_StaleResponseDiscarded ==
    [][(lastEvent'.op \in HomeSettled /\ lastEvent'.stale)
          => UNCHANGED <<state, analysisResult, jobId, errorMessage>>]_vars

\* C3: at most one analyze or negotiate request is in flight in every
\* reachable state.
C3_AtMostOneInFlight == InFlight({"analyze", "negotiate"}) <= 1

\* The transition table of the workflow stages.
TransitionTable ==
    {<<"idle", "preview">>, <<"preview", "analyzing">>, <<"analyzing", "results">>,
     <<"analyzing", "error">>, <<"results", "calling">>, <<"results", "error">>,
     <<"error", "preview">>, <<"preview", "idle">>, <<"results", "idle">>,
     <<"calling", "idle">>, <<"error", "idle">>}

\* C4: every change of the stage of a mounted workflow is a transition of the
\* table.
C4_StageChangesInTable ==
    [][(page = "home" /\ page' = "home" /\ state' # state)
          => <<state, state'>> \in TransitionTable]_vars

\* C5: right after a successful analyze response is applied the stage is
\* results and the stored AnalysisResult is the payload the service returned.
C5_AnalyzeSuccessStored ==
    (lastEvent.op = "handleAnalyze.settled" /\ Succeeded(lastEvent.resp)) =>
        /\ state = "results"
        /\ analysisResult = lastEvent.resp.json

C5_Witness ==
    /\ lastEvent.op = "handleAnalyze.settled"
    /\ Succeeded(lastEvent.resp)
    /\ lastEvent.resp.json[1].best_platform = "eBay"
    /\ state = "results"

\* C6: after a non-2xx response from /api/analyze or /api/negotiate the stage
\* is error, after one from /api/offers the offer view is in its error state,
\* and the stored message contains the text of the response body.
C6_HttpFailureShown ==
    /\ (lastEvent.op \in HomeSettled /\ HttpFailed(lastEvent.resp)) =>
          /\ state = "error"
          /\ errorMessage # Null
          /\ Contains(errorMessage[1], lastEvent.resp.text)
    /\ (lastEvent.op = "fetchOffers.settled" /\ HttpFailed(lastEvent.resp)) =>
          /\ pageState = "error"
          /\ offersError # Null
          /\ Contains(offersError[1], lastEvent.resp.text)

C6_Witness ==
    /\ lastEvent.op = "fetchOffers.settled"
    /\ HttpFailed(lastEvent.resp)
    /\ lastEvent.resp.text = <<"model unavailable">>
    /\ pageState = "error"

C8_RetryKeepsImage ==
    [][lastEvent'.op = "retry" =>
          /\ state' = "preview"
          /\ currentFile' = currentFile /\ currentFile' # Null
          /\ preview' = preview /\ preview' # Null
          /\ calls' = calls]_vars

\* C9: submitting a file whose MIME type does not begin with "image/", by the
\* file picker, the camera input or a drop, changes neither the stage, the
\* captured image, the preview handle, the analysis result nor the error
\* message, and creates no object URL.
C9_NonImageIgnored ==
    [][(lastEvent'.op \in FileEvents /\ ~StartsWith(FileType(lastEvent'.file), <<"image/">>))
          => UNCHANGED <<state, currentFile, preview, analysisResult, errorMessage,
                         objectUrls>>]_vars

C9_Witness ==
    /\ lastEvent.op \in FileEvents
    /\ lastEvent.file = "notes.txt"
    /\ state = "idle"
    /\ currentFile = Null

\* C10: a successful negotiate response with job id j leads to stage calling
\* with job handle j, and for as long as the stage stays calling the
\* offer-review link keeps the job id of the negotiation that entered calling.
C10_LinkCarriesEnteringJob ==
    [][/\ (lastEvent'.op = "handleNegotiate.settled" /\ Succeeded(lastEvent'.resp)) =>
             /\ state' = "calling"
             /\ jobId' = Some(lastEvent'.resp.json[1].job_id)
       /\ (page = "home" /\ page' = "home" /\ state = "calling" /\ state' = "calling") =>
             OffersHref(jobId') = OffersHref(jobId)]_vars

\* The step sends a request of the given kind.
Sends(kind) == lastEvent'.op = "fetch" /\ lastEvent'.kind = kind

\* The step starts an invocation c of the handler of the given kind.
Starts(c, kind) ==
    /\ c.kind = kind /\ c.pc = "token"
    /\ calls' = AddCall(calls, c)

Captured ==
    /\ lastEvent.op \in FileEvents
    /\ StartsWith(FileType(lastEvent.file), <<"image/">>)

\* C12: right after any new image is captured the workflow holds that image
\* and nothing downstream of an earlier one: no analysis result, no job handle
\* and no error message.
C12_CaptureInvalidatesDownstream ==
    Captured =>
        /\ currentFile = Some(lastEvent.file)
        /\ analysisResult = Null
        /\ jobId = Null
        /\ errorMessage = Null

\* The offers page shows the accepted/declined lists of a finished job.
DoneShown == page = "offers" /\ panel = "done"

\* C13: whenever the lists of a snapshot with status done are shown, the
\* accepted list is exactly the offers with accepted = true and the declined
\* list exactly those with accepted = false, each in original order: no offer
\* is dropped, duplicated or placed in the wrong list.
C13_PartitionExact ==
    DoneShown =>
        /\ accepted = SelectSeq(data[1].offers, LAMBDA o : o.accepted)
        /\ declined = SelectSeq(data[1].offers, LAMBDA o : ~o.accepted)

\* The offers the page presents: the two lists of the done view, else none.
shownOffers == IF panel = "done" THEN accepted \o declined ELSE <<>>

\* The last event applied a snapshot to the offers view.
SnapshotApplied == lastEvent.op = "fetchOffers.settled" /\ Succeeded(lastEvent.resp)

\* C14 as stated: the accepted/declined lists (or the "no stores accepted"
\* notice) are displayed only when the last applied snapshot has status done,
\* and whenever the snapshot held has any other status no offer is presented
\* and the in-progress panel with Refresh is shown.
C14_InProgressWheneverNotDone ==
    page = "offers" =>
        /\ panel = "done" => (data # Null /\ data[1].status = "done")
        /\ (data # Null /\ data[1].status # "done") =>
              (panel = "inProgress" /\ shownOffers = <<>>)

\* C14 as amended: the accepted/declined lists (or the "no stores accepted"
\* notice) are displayed only when the last applied snapshot has status done;
\* while the view is ready and the snapshot it holds has any other status, no
\* offer is presented and the in-progress panel with its Refresh button is
\* shown, and Refresh is offered nowhere else.
C14_OffersOnlyWhenDone ==
    page = "offers" =>
        /\ SnapshotApplied => (pageState = "ready" /\ data = lastEvent.resp.json)
        /\ panel = "done" => (data # Null /\ data[1].status = "done")
        /\ (pageState = "ready" /\ statusOf(data) # "done") =>
              /\ panel = "inProgress"
              /\ shownOffers = <<>>
              /\ BagCardinality(calls) < MaxCalls => ENABLED refresh
        /\ (lastEvent.op = "fetchOffers" /\ lastEvent.by = "refresh") =>
              statusOf(data) # "done"

C14_Witness ==
    /\ page = "offers" /\ SnapshotApplied
    /\ data[1].status = "pending" /\ data[1].offers # <<>>
    /\ panel = "inProgress" /\ shownOffers = <<>>

\* The step applies snapshot d to the offers view.
Applies(d) ==
    /\ lastEvent'.op = "fetchOffers.settled" /\ Succeeded(lastEvent'.resp)
    /\ lastEvent'.resp.json = d

\* C15: fetchOffers is an idempotent read. A call answered with the pending
\* snapshot the ready view already holds from the call before leaves the view
\* as it was (ready, same data); every applied snapshot is stored as the
\* service returned it; starting or finishing a call changes no workflow stage.
C15_FetchOffersIdempotent ==
    [][/\ (pageState = "ready" /\ statusOf(data) = "pending" /\ Applies(data)) =>
             UNCHANGED <<pageState, data, offersError>>
       /\ \A d \in {Some(s) : s \in Snapshots} : Applies(d) => data' = d
       /\ lastEvent'.op \in {"fetchOffers", "fetchOffers.settled"} =>
             UNCHANGED <<page, homeVars>>
       /\ (lastEvent'.op = "fetchOffers" /\ lastEvent'.sent) =>
             UNCHANGED <<pageState, data, offersError>>]_vars

C15_Witness ==
    /\ page = "offers" /\ SnapshotApplied
    /\ lastEvent.before = [pageState |-> "ready", data |-> lastEvent.resp.json]
    /\ data[1].status = "pending" /\ data[1].offers # <<>>
    /\ pageState = "ready" /\ data = lastEvent.before.data

\* The offers view is mounted without a job_id and its mount effect has run.
OpenedWithoutJob == page = "offers" /\ ~Truthy(jobIdParam) /\ ~effectPending

\* C16: once the offers view opened without a job_id has run fetchOffers, it
\* is in its error state showing "No job ID provided.", no /api/offers request
\* has been started or sent, and it stays so: neither the ready nor the
\* loading view is shown again.
C16_MissingJobIsError ==
    OpenedWithoutJob =>
        /\ pageState = "error" /\ panel = "error"
        /\ offersError = Some(<<"No job ID provided.">>)
        /\ data = Null
        /\ calls = EmptyBag
        /\ ~(lastEvent.op = "fetch")
        /\ ~ENABLED refresh

C16_Witness ==
    /\ OpenedWithoutJob
    /\ lastEvent = [op |-> "fetchOffers", by |-> "effect", sent |-> FALSE]
    /\ pageState = "error"

\* Number of invocations of a kind at a position, in a bag of calls.
Count(b, kind, pc) ==
    BagCardinality([c \in {x \in BagToSet(b) : x.kind = kind /\ x.pc = pc} |-> b[c]])

\* The event with which the user (or, for offers, also the mount effect)
\* starts an operation of each kind.
StartEvent(kind) ==
    CASE kind = "analyze" -> "handleAnalyze"
      [] kind = "negotiate" -> "handleNegotiate"
      [] kind = "offers" -> "fetchOffers"

Settlements == {"handleAnalyze.settled", "handleNegotiate.settled", "fetchOffers.settled"}

\* C17: there are no automatic retries. Each accepted Analyze, "Yes, call
\* them", Refresh or initial load starts exactly one invocation of its kind,
\* each invocation sends exactly one request, and no other step (a failed
\* settlement in particular) starts an invocation or sends a request; the
\* initial load happens once per opening of the offers view. Hence the requests
\* sent per kind are as many as the accepted actions of that kind (offers: one
\* plus the Refresh actions).
C17_NoAutomaticRetry ==
    [][/\ \A k \in {"analyze", "negotiate", "offers"} :
             IF lastEvent'.op = StartEvent(k) /\ lastEvent'.sent
             THEN /\ Count(calls', k, "token") = Count(calls, k, "token") + 1
                  /\ Count(calls', k, "fetch") = Count(calls, k, "fetch")
             ELSE IF Sends(k)
             THEN /\ Count(calls', k, "token") = Count(calls, k, "token") - 1
                  /\ Count(calls', k, "fetch") = Count(calls, k, "fetch") + 1
             ELSE /\ Count(calls', k, "token") <= Count(calls, k, "token")
                  /\ Count(calls', k, "fetch") <= Count(calls, k, "fetch")
       /\ lastEvent'.op \in Settlements =>
             BagCardinality(calls') = BagCardinality(calls) - 1
       /\ (lastEvent'.op = "fetchOffers" /\ lastEvent'.by = "effect") =>
             (effectPending /\ ~effectPending')
       /\ (~effectPending /\ effectPending') => lastEvent'.op = "navigate"]_vars

C17_Witness ==
    /\ lastEvent.op \in Settlements
    /\ ~Succeeded(lastEvent.resp)
    /\ calls = EmptyBag
    /\ state = "error" \/ pageState = "error"

\* C18: in every error-display state two recovery actions are enabled: in the
\* workflow's error stage "Try again" and "Start over", in the offers view's
\* error panel after a failed /api/offers request a retry of fetchOffers and
\* the way back to start over.
C18_ErrorOffersRetryAndDiscard ==
    /\ (page = "home" /\ state = "error") => (ENABLED retry /\ ENABLED reset)
    /\ (page = "offers" /\ panel = "error" /\ Truthy(jobIdParam)) =>
          (ENABLED refresh /\ ENABLED backToFlipKit)

\* An analyze invocation is outstanding and its next step can be taken.
AnalyzeCompletes ==
    /\ \E c \in BagToSet(calls) : c.kind = "analyze"
    /\ \/ ENABLED (\E c \in BagToSet(calls), token \in Tokens :
                      c.kind = "analyze" /\ getTokenResolved(c, token))
       \/ ENABLED (\E c \in BagToSet(calls), resp \in Responses(AnalysisPayloads) :
                      handleAnalyzeResume(c, resp))

LlOf(c) == IF c # Null THEN Some(LlParam(c[1])) ELSE Null

\* C20: the location is read at the moment of the analyze call. An accepted
\* Analyze starts a request that carries ll built from the coordinates the
\* probe has delivered by then (also when they arrived after the image was
\* selected) and no ll when it has delivered none; the request sent after
\* getToken() carries the same field.
C20_LocationReadAtAnalyze ==
    [][/\ (lastEvent'.op = "handleAnalyze" /\ lastEvent'.sent) =>
             \E c \in BagToSet(calls') : Starts(c, "analyze") /\ c.ll = LlOf(coords)
       /\ Sends("analyze") =>
             \E c \in BagToSet(calls) :
                c.kind = "analyze" /\ c.pc = "token" /\ c.ll = lastEvent'.ll]_vars

\* The location probe has delivered nothing: it failed, was denied or is still
\* pending.
NoLocation == page = "home" /\ geo \in {"failed", "pending"}

\* C21: a probe that fails, is denied or never resolves yields no coordinates
\* and changes neither the stage nor the error message; capture, Analyze,
\* "Yes, call them" and reset are enabled in the stages that offer them just
\* the same, and an analyze request started meanwhile carries no ll.
C21_ProbeFailureIsSilent ==
    [][/\ lastEvent'.op = "geoError" =>
             /\ coords' = Null
             /\ UNCHANGED <<state, errorMessage, preview, currentFile, analysisResult,
                            jobId, calls>>
       /\ NoLocation =>
             /\ coords = Null
             /\ (state = "idle" /\ Cardinality(objectUrls) < MaxUrls) =>
                   ENABLED onDrop("photo.jpg")
             /\ (state = "preview" /\ BagCardinality(calls) < MaxCalls) =>
                   ENABLED handleAnalyze
             /\ (state = "results" /\ BagCardinality(calls) < MaxCalls) =>
                   ENABLED handleNegotiate
             /\ state \in {"preview", "results", "calling", "error"} => ENABLED reset
             /\ \A c \in BagToSet(calls') : Starts(c, "analyze") => c.ll = Null
             /\ Sends("analyze") => lastEvent'.ll = Null]_vars

C21_Witness ==
    /\ page = "home" /\ geo = "failed"
    /\ lastEvent.op = "fetch" /\ lastEvent.kind = "analyze"
    /\ lastEvent.ll = Null

\* C22: the preview handle is never leaked. At most one object URL is created
\* and not yet revoked, there is one exactly when the workflow holds a captured
\* image, and it is the one the preview shows.
C22_PreviewHandleNotLeaked ==
    /\ Cardinality(objectUrls) <= 1
    /\ Cardinality(objectUrls) = 1 <=> (page = "home" /\ currentFile # Null)
    /\ preview # Null => objectUrls = {preview[1]}

\* C23: an analyze, negotiate or offers request carries the header
\* Authorization: Bearer <token> exactly when getToken() returned a token;
\* without a token the request is sent all the same, without the header, and
\* the invocation goes on to await the response as it does with a token.
C23_BearerIffToken ==
    [][\A k \in {"analyze", "negotiate", "offers"} :
          Sends(k) =>
             /\ lastEvent'.authorization =
                   IF lastEvent'.token # Null
                   THEN Some(<<"Bearer ", lastEvent'.token[1]>>) ELSE Null
             /\ Count(calls', k, "fetch") = Count(calls, k, "fetch") + 1
             /\ UNCHANGED <<page, homeVars, offersVars>>]_vars

C23_Witness ==
    /\ lastEvent.op = "fetch" /\ lastEvent.kind = "negotiate"
    /\ lastEvent.token = Null /\ lastEvent.authorization = Null
    /\ \E c \in BagToSet(calls) : c.kind = "negotiate" /\ c.pc = "fetch"

\* C24: requesting analysis requires a captured image. With no image held the
\* click changes nothing and starts no request; with an image held the stage
\* becomes analyzing and the error message is cleared in the same step, before
\* the request is sent, so that no error message is held in stage analyzing.
C24_AnalyzeRequiresImage ==
    [][/\ lastEvent'.op = "handleAnalyze" =>
             IF currentFile = Null
             THEN /\ ~lastEvent'.sent
                  /\ UNCHANGED <<page, homeVars, objectUrls, calls, offersVars>>
             ELSE /\ lastEvent'.sent
                  /\ state' = "analyzing" /\ errorMessage' = Null
                  /\ \E c \in BagToSet(calls') :
                        Starts(c, "analyze") /\ c.file = currentFile
       /\ (page' = "home" /\ state' = "analyzing") => errorMessage' = Null]_vars

C24_Witness ==
    /\ lastEvent = [op |-> "handleAnalyze", sent |-> TRUE, hadError |-> TRUE]
    /\ state = "analyzing" /\ errorMessage = Null

\* The step happens within one mounted workflow (one session of HomePage).
SameSession == page = "home" /\ page' = "home"

\* C25: the location probe is issued once per workflow session and delivers at
\* most once; within a session the coordinates change at most once, from
\* absent to a value, by the probe's success only, and no operation, reset
\* included, clears or modifies them afterwards.
C25_CoordsSetOnce ==
    [][SameSession =>
          /\ coords' # coords => (coords = Null /\ coords' # Null /\
                                  lastEvent'.op = "geoSuccess")
          /\ lastEvent'.op \in {"geoSuccess", "geoError"} => geo = "pending"
          /\ geo # "pending" => geo' = geo
          /\ geo' = "pending" => geo = "pending"
          /\ lastEvent'.op = "reset" => UNCHANGED <<coords, geo>>]_vars

C25_Witness ==
    /\ page = "home" /\ lastEvent.op = "reset"
    /\ geo = "resolved" /\ coords = Some([lat |-> 40, lng |-> -74])

\* C26: the file input retains no selection after a selection event, image or
\* not, so in idle every file, the one selected before included, can be
\* selected again; selecting an image then produces a capture and reaches
\* preview with that file attached.
C26_SameFileReselectable ==
    [][/\ lastEvent'.op = "onFileChange" =>
             /\ inputValue' = ""
             /\ StartsWith(FileType(lastEvent'.file), <<"image/">>) =>
                   (state' = "preview" /\ currentFile' = Some(lastEvent'.file) /\
                    preview' # Null /\ preview' # preview)
       /\ (page = "home" /\ state = "idle" /\ Cardinality(objectUrls) < MaxUrls) =>
             \A f \in Files : ENABLED onFileChange("file", f)]_vars

C26_Witness ==
    /\ lastEvent = [op |-> "onFileChange", input |-> "file", file |-> "photo.jpg"]
    /\ state = "preview" /\ currentFile = Some("photo.jpg")
    /\ \E c \in BagToSet(calls) : c.kind = "analyze" /\ c.file = Some("photo.jpg") /\ c.stale

\* C27: every reachable state carries the data its stage needs: in results an
\* analysis result is held, in error an error message, in calling a job
\* handle.
C27_StageHasItsData ==
    page = "home" =>
        /\ state = "results" => analysisResult # Null
        /\ state = "error" => errorMessage # Null
        /\ state = "calling" => jobId # Null

C27_Witness ==
    /\ page = "home" /\ state = "calling" /\ jobId # Null
    /\ lastEvent.op = "handleNegotiate.settled" /\ lastEvent.stale
    /\ analysisResult = Null

\* C28: in every reachable state a stage of preview, analyzing or results
\* implies that a captured image and its preview handle are held.
C28_ImageHeldWhileShown ==
    (page = "home" /\ state \in {"preview", "analyzing", "results"}) =>
        (currentFile # Null /\ preview # Null /\ preview[1] \in objectUrls)

\* C29: provided every request sent is eventually answered or fails, every
\* entry into analyzing is eventually followed by a state whose stage is
\* results or error.
C29_AnalyzingTerminates ==
    (page = "home" /\ state = "analyzing") ~> (page = "home" /\ state \in {"results", "error"})

\* The step applies an answer the service can have given while its status for
\* the job only moves from pending to done: a pending snapshot arrives only on
\* a request that was already in flight when a done snapshot was applied.
MonotoneAnswer ==
    /\ lastEvent'.op = "fetchOffers.settled"
    /\ (Succeeded(lastEvent'.resp) /\ lastEvent'.resp.json[1].status = "pending") =>
          lastEvent'.stale

\* C30: the offers view is monotonic. Once a snapshot with status done has
\* been applied, no later answer, whatever the order in which the answers of
\* outstanding Refresh requests arrive, brings back the in-progress view or a
\* pending snapshot.
C30_OffersViewMonotonic ==
    [][(page = "offers" /\ statusOf(data) = "done" /\ MonotoneAnswer) =>
          (statusOf(data') = "done" /\ panel' # "inProgress")]_vars
====
